---- MODULE Spec2Model ----
(***************************************************************************)
(* sign-bound: signed integers bounded to be positive (>= 0) or negative   *)
(* (< 0), src/lib.rs.  The types are generated by the macros               *)
(* impl_positive! / impl_negative! for the bases i8, i16, i32, i64, isize. *)
(* The model instantiates them for i8 and i16: every value of both widths  *)
(* for the constructors and the conversions, every pair of i8 values and   *)
(* the pairs of i16 values around the range boundaries for the binary      *)
(* operations.                                                             *)
(*                                                                         *)
(* Every operation of the library is a pure function of its operands.  A   *)
(* state is one call: the operands x and y (y is Unit for a unary call),   *)
(* the name of the operation applied (op) and its result (r).  An initial  *)
(* state holds operands and no call; an operation takes it to the state    *)
(* of its result; Feed makes a result the operand of the next call.        *)
(***************************************************************************)
EXTENDS Integers, FiniteSets, Sequences, TLC

VARIABLES op, x, y, r

vars == <<op, x, y, r>>

-----------------------------------------------------------------------------
\* Widths and bounds

W8 == 8
W16 == 16

\* Operands of binary operations at width 16 lie within EdgeSpan of zero or
\* of a range boundary of i8, u8, i16 or u16.
EdgeSpan == 2

\* Largest exponent given to checked_pow and saturating_pow.
MaxExp == 8

\* The longest strings enumerated in full.
MaxLen == 3

Widths == {W8, W16}

MinOf(w) == -(2 ^ (w - 1))
MaxOf(w) == 2 ^ (w - 1) - 1
UMaxOf(w) == 2 ^ w - 1

Base(w) == MinOf(w) .. MaxOf(w)
Uns(w) == 0 .. UMaxOf(w)

\* `n as $uns`: the two's-complement bit pattern read as unsigned.
AsUns(w, n) == n % (2 ^ w)
\* `n as $base`: the low w bits read as signed.
AsBase(w, n) == ((n + 2 ^ (w - 1)) % (2 ^ w)) - 2 ^ (w - 1)

Abs(n) == IF n < 0 THEN -n ELSE n

Near(e) == (e - EdgeSpan) .. (e + EdgeSpan)

Edges ==
    UNION {Near(e) : e \in {MinOf(W8), 0, MaxOf(W8), UMaxOf(W8),
                            MinOf(W16), MaxOf(W16), UMaxOf(W16)}}

\* The primitive values of width w given to binary operations.
BaseIn(w) ==
    IF w = W8 THEN Base(w) ELSE {n \in Edges : MinOf(w) <= n /\ n <= MaxOf(w)}
UnsIn(w) == IF w = W8 THEN Uns(w) ELSE {n \in Edges : 0 <= n /\ n <= UMaxOf(w)}

-----------------------------------------------------------------------------
\* Values in memory.  A value of width w is its bytes: hi, the most
\* significant byte, and buf, the other bytes as one number.  pol is the type:
\* Pos or Neg for a sign-bound type, I for the signed primitive, U for the
\* unsigned one.  tag: Val for a plain value, Some or None for an Option, Ok or
\* Err for a Result, Panic, Unit for no value.  chk: ok, or the build-dependent
\* check the call ran into: debug_assert (the precondition of new_unchecked),
\* overflow (a raw arithmetic operator) or assert_unchecked (get on an invalid
\* instance).  A build with the checks on panics there; a build with them off
\* goes on with the value.

HighByte(w, n) == AsUns(w, n) \div (2 ^ (w - 8))
LowBytes(w, n) == AsUns(w, n) % (2 ^ (w - 8))

\* core::mem::transmute between a primitive and the bytes of a type.
Transmute(tag, pol, w, n, chk) ==
    [tag |-> tag, pol |-> pol, w |-> w,
     hi |-> HighByte(w, n), buf |-> LowBytes(w, n), chk |-> chk]

NoValue(tag) ==
    [tag |-> tag, pol |-> "none", w |-> 0, hi |-> 0, buf |-> 0, chk |-> "ok"]

None == NoValue("None")
Panic == NoValue("Panic")
Err == NoValue("Err")
Unit == NoValue("Unit")

\* The number a value's bytes hold, read at the value's type.
Value(v) ==
    LET u == v.hi * (2 ^ (v.w - 8)) + v.buf
    IN  IF v.pol = "U" THEN u ELSE AsBase(v.w, u)

Prim(pol, w, n) == Transmute("Val", pol, w, n, "ok")
SomePrim(pol, w, n) == Transmute("Some", pol, w, n, "ok")

HasValue(v) == v.tag \in {"Val", "Some", "Ok"}
IsInstance(v) == HasValue(v) /\ v.pol \in {"Pos", "Neg"}

\* Some(v), Ok(v) and the value taken out of them.
Some(v) == IF v.tag = "Val" THEN [v EXCEPT !.tag = "Some"] ELSE v
Ok(v) == IF v.tag = "Val" THEN [v EXCEPT !.tag = "Ok"] ELSE v
Unwrap(v) == [v EXCEPT !.tag = "Val", !.chk = "ok"]

\* A result computed past a raw arithmetic overflow.
Overflowed(ovf, v) ==
    IF ovf /\ v.chk = "ok" THEN [v EXCEPT !.chk = "overflow"] ELSE v

-----------------------------------------------------------------------------
\* Layout: the high byte of a sign-bound type is an enum of 128 variants.

PositiveHighByte == 0 .. 127
NegativeHighByte == 128 .. 255

\* The bytes hold a valid value of their type.
ValidBytes(v) ==
    CASE v.pol = "Pos" -> v.hi \in PositiveHighByte
      [] v.pol = "Neg" -> v.hi \in NegativeHighByte
      [] OTHER -> TRUE

-----------------------------------------------------------------------------
\* The primitive integer operations the library calls (core), on numbers.
\* An Option<$base> is Some or None; a raw operator gives the wrapped number
\* and whether it overflowed.

InBase(w, n) == n \in Base(w)

\* Division truncated towards zero, as / and % of the primitive do.
TruncDiv(m, n) ==
    IF (m < 0) = (n < 0) THEN Abs(m) \div Abs(n) ELSE -(Abs(m) \div Abs(n))
TruncRem(m, n) == m - n * TruncDiv(m, n)

\* The Euclidean remainder, 0 <= r < |n|, and the quotient that goes with it.
EuclidRem(m, n) == m % Abs(n)
EuclidDiv(m, n) == TruncDiv(m - EuclidRem(m, n), n)

DivOverflows(w, m, n) == m = MinOf(w) /\ n = -1

Clamp(w, n) ==
    IF n < MinOf(w) THEN MinOf(w) ELSE IF n > MaxOf(w) THEN MaxOf(w) ELSE n

\* m ^ e, left as it is once it is out of the range of the width.
RECURSIVE PowCapped(_, _, _)
PowCapped(w, m, e) ==
    IF e = 0 THEN 1
    ELSE LET p == PowCapped(w, m, e - 1)
         IN  IF InBase(w, p) THEN p * m ELSE p

raw_sub(w, m, n) == [val |-> AsBase(w, m - n), ovf |-> ~InBase(w, m - n)]
raw_neg(w, m) == [val |-> AsBase(w, -m), ovf |-> ~InBase(w, -m)]

checked_add(w, m, n) ==
    IF InBase(w, m + n) THEN SomePrim("I", w, m + n) ELSE None
checked_sub(w, m, n) ==
    IF InBase(w, m - n) THEN SomePrim("I", w, m - n) ELSE None
checked_mul(w, m, n) ==
    IF InBase(w, m * n) THEN SomePrim("I", w, m * n) ELSE None
checked_div(w, m, n) ==
    IF n = 0 \/ DivOverflows(w, m, n) THEN None
    ELSE SomePrim("I", w, TruncDiv(m, n))
checked_rem(w, m, n) ==
    IF n = 0 \/ DivOverflows(w, m, n) THEN None
    ELSE SomePrim("I", w, TruncRem(m, n))
checked_div_euclid(w, m, n) ==
    IF n = 0 \/ DivOverflows(w, m, n) THEN None
    ELSE SomePrim("I", w, EuclidDiv(m, n))
checked_rem_euclid(w, m, n) ==
    IF n = 0 \/ DivOverflows(w, m, n) THEN None
    ELSE SomePrim("I", w, EuclidRem(m, n))
checked_neg(w, m) ==
    IF InBase(w, -m) THEN SomePrim("I", w, -m) ELSE None
checked_abs(w, m) ==
    IF InBase(w, Abs(m)) THEN SomePrim("I", w, Abs(m)) ELSE None
checked_pow(w, m, e) ==
    IF InBase(w, PowCapped(w, m, e)) THEN SomePrim("I", w, PowCapped(w, m, e))
    ELSE None

\* The unsigned checked_div and checked_rem.
unsigned_checked_div(w, m, n) ==
    IF n = 0 THEN None ELSE SomePrim("U", w, m \div n)
unsigned_checked_rem(w, m, n) ==
    IF n = 0 THEN None ELSE SomePrim("U", w, m % n)

\* rem_euclid is `self % rhs` made non-negative: % panics when rhs is zero
\* and when it overflows (MIN % -1), whatever the build.
rem_euclid(w, m, n) ==
    IF n = 0 \/ DivOverflows(w, m, n) THEN Panic
    ELSE Prim("I", w, EuclidRem(m, n))

\* The smallest power of two >= u.
RECURSIVE PowerOfTwoFrom(_, _)
PowerOfTwoFrom(p, u) == IF p >= u THEN p ELSE PowerOfTwoFrom(2 * p, u)

next_power_of_two(w, u) ==
    [val |-> AsUns(w, PowerOfTwoFrom(1, u)),
     ovf |-> PowerOfTwoFrom(1, u) > UMaxOf(w)]

saturating_add(w, m, n) == Clamp(w, m + n)
saturating_mul(w, m, n) == Clamp(w, m * n)
saturating_pow(w, m, e) == Clamp(w, PowCapped(w, m, e))
saturating_abs(w, m) == Clamp(w, Abs(m))
saturating_neg(w, m) == Clamp(w, -m)

\* The operators / and % of the signed primitive, which panic on a zero
\* divisor and on overflow, and of the unsigned one.
div(w, m, n) ==
    IF n = 0 \/ DivOverflows(w, m, n) THEN Panic
    ELSE Prim("I", w, TruncDiv(m, n))
rem(w, m, n) ==
    IF n = 0 \/ DivOverflows(w, m, n) THEN Panic
    ELSE Prim("I", w, TruncRem(m, n))
unsigned_div(w, m, n) == IF n = 0 THEN Panic ELSE Prim("U", w, m \div n)
unsigned_rem(w, m, n) == IF n = 0 THEN Panic ELSE Prim("U", w, m % n)

\* The bitwise operators, bit by bit on the two's-complement patterns.
BitOf(f, p, q) ==
    CASE f = "and" -> p * q
      [] f = "or" -> p + q - p * q
      [] f = "xor" -> (p + q) % 2

RECURSIVE Bitwise(_, _, _, _)
Bitwise(f, k, u, v) ==
    IF k = 0 THEN 0
    ELSE 2 * Bitwise(f, k - 1, u \div 2, v \div 2) + BitOf(f, u % 2, v % 2)

bitand(w, m, n) == AsBase(w, Bitwise("and", w, AsUns(w, m), AsUns(w, n)))
bitor(w, m, n) == AsBase(w, Bitwise("or", w, AsUns(w, m), AsUns(w, n)))
bitxor(w, m, n) == AsBase(w, Bitwise("xor", w, AsUns(w, m), AsUns(w, n)))
not(w, m) == AsBase(w, UMaxOf(w) - AsUns(w, m))

\* $t::try_from(n) for a primitive type t of width w.
try_from(pol, w, n) ==
    IF pol = "U"
    THEN IF 0 <= n /\ n <= UMaxOf(w) THEN Transmute("Ok", "U", w, n, "ok")
         ELSE Err
    ELSE IF InBase(w, n) THEN Transmute("Ok", "I", w, n, "ok") ELSE Err

-----------------------------------------------------------------------------
\* Encoding core

\* Positive_new with the comparison off by one: zero is refused.
Positive_new_refusing_zero(w, value) ==
    IF value <= 0 THEN None ELSE Transmute("Some", "Pos", w, value, "ok")

Positive_new(w, value) ==
    IF value < 0 THEN None ELSE Transmute("Some", "Pos", w, value, "ok")

Positive_new_unchecked(w, value) ==
    Transmute("Val", "Pos", w, value,
              IF value >= 0 THEN "ok" ELSE "debug_assert")

Positive_get(self) == AsBase(self.w, self.hi * (2 ^ (self.w - 8)) + self.buf)

\* Negative_new with the comparison off by one: zero is accepted.
Negative_new_accepting_zero(w, value) ==
    IF value > 0 THEN None ELSE Transmute("Some", "Neg", w, value, "ok")

Negative_new(w, value) ==
    IF value >= 0 THEN None ELSE Transmute("Some", "Neg", w, value, "ok")

Negative_new_unchecked(w, value) ==
    Transmute("Val", "Neg", w, value,
              IF value < 0 THEN "ok" ELSE "debug_assert")

Negative_get(self) == AsBase(self.w, self.hi * (2 ^ (self.w - 8)) + self.buf)

Positive_MIN(w) == Positive_new_unchecked(w, 0)
Positive_MAX(w) == Positive_new_unchecked(w, MaxOf(w))
Negative_MIN(w) == Negative_new_unchecked(w, MinOf(w))
Negative_MAX(w) == Negative_new_unchecked(w, -1)
\* The polarities whose macro implements Default: impl_positive! does,
\* impl_negative! has no such impl.
Defaulted == {"Pos"}

\* Positive_default returning the other constant.
Positive_default_MAX(w) == Positive_MAX(w)

Positive_default(w) == Positive_MIN(w)

-----------------------------------------------------------------------------
\* impl_positive!: checked operations

\* Positive_checked_neg through a constructor that accepts zero.
Positive_checked_neg_accepting_zero(self) ==
    LET n == raw_neg(self.w, Positive_get(self))
    IN  Overflowed(n.ovf, Negative_new_accepting_zero(self.w, n.val))

\* Positive_checked_neg with the complement in place of the negation.
Positive_checked_neg_complementing(self) ==
    Negative_new(self.w, not(self.w, Positive_get(self)))

Positive_checked_neg(self) ==
    LET n == raw_neg(self.w, Positive_get(self))
    IN  Overflowed(n.ovf, Negative_new(self.w, n.val))

Positive_checked_add(self, rhs) ==
    LET n == checked_add(self.w, Positive_get(self), Positive_get(rhs))
    IN  IF n.tag = "Some" THEN Some(Positive_new_unchecked(self.w, Value(n)))
        ELSE None

\* Positive_checked_sub with the operands of the subtraction swapped.
Positive_checked_sub_swapped(self, rhs) ==
    LET n == raw_sub(self.w, Positive_get(rhs), Positive_get(self))
    IN  Overflowed(n.ovf, Positive_new(self.w, n.val))

Positive_checked_sub(self, rhs) ==
    LET n == raw_sub(self.w, Positive_get(self), Positive_get(rhs))
    IN  Overflowed(n.ovf, Positive_new(self.w, n.val))

Positive_checked_mul(self, rhs) ==
    LET n == checked_mul(self.w, Positive_get(self), Positive_get(rhs))
    IN  IF n.tag = "Some" THEN Some(Positive_new_unchecked(self.w, Value(n)))
        ELSE None

Positive_checked_div(self, rhs) ==
    LET n == checked_div(self.w, Positive_get(self), Positive_get(rhs))
    IN  IF n.tag = "Some" THEN Some(Positive_new_unchecked(self.w, Value(n)))
        ELSE None

Positive_checked_rem(self, rhs) ==
    LET n == checked_rem(self.w, Positive_get(self), Positive_get(rhs))
    IN  IF n.tag = "Some" THEN Some(Positive_new_unchecked(self.w, Value(n)))
        ELSE None

Positive_checked_div_unsigned(self, rhs) ==
    LET n == unsigned_checked_div(self.w, AsUns(self.w, Positive_get(self)),
                                  Value(rhs))
    IN  IF n.tag = "Some"
        THEN Some(Positive_new_unchecked(self.w, AsBase(self.w, Value(n))))
        ELSE None

\* Positive_checked_rem_unsigned with the divisor cast to the signed type.
Positive_checked_rem_unsigned_signed(self, rhs) ==
    LET n == checked_rem(self.w, Positive_get(self), AsBase(self.w, Value(rhs)))
    IN  IF n.tag = "Some" THEN Some(Positive_new_unchecked(self.w, Value(n)))
        ELSE None

Positive_checked_rem_unsigned(self, rhs) ==
    LET n == unsigned_checked_rem(self.w, AsUns(self.w, Positive_get(self)),
                                  Value(rhs))
    IN  IF n.tag = "Some"
        THEN Some(Positive_new_unchecked(self.w, AsBase(self.w, Value(n))))
        ELSE None

Positive_checked_pow(self, rhs) ==
    LET n == checked_pow(self.w, Positive_get(self), Value(rhs))
    IN  IF n.tag = "Some" THEN Some(Positive_new_unchecked(self.w, Value(n)))
        ELSE None

\* Positive_checked_next_power_of_two without Positive::new on the result.
Positive_checked_next_power_of_two_unvalidated(self) ==
    LET n == next_power_of_two(self.w, AsUns(self.w, Positive_get(self)))
    IN  Overflowed(n.ovf,
                   Some(Positive_new_unchecked(self.w, AsBase(self.w, n.val))))

Positive_checked_next_power_of_two(self) ==
    LET n == next_power_of_two(self.w, AsUns(self.w, Positive_get(self)))
    IN  Overflowed(n.ovf, Positive_new(self.w, AsBase(self.w, n.val)))

-----------------------------------------------------------------------------
\* impl_positive!: saturating operations and operators

Positive_saturating_add(self, rhs) ==
    LET n == saturating_add(self.w, Positive_get(self), Positive_get(rhs))
    IN  Positive_new_unchecked(self.w, n)

Positive_saturating_sub(self, rhs) ==
    LET n == raw_sub(self.w, Positive_get(self), Positive_get(rhs))
        m == Positive_new(self.w, n.val)
    IN  Overflowed(n.ovf, IF m.tag = "Some" THEN Unwrap(m)
                          ELSE Positive_MIN(self.w))

Positive_saturating_mul(self, rhs) ==
    LET n == saturating_mul(self.w, Positive_get(self), Positive_get(rhs))
    IN  Positive_new_unchecked(self.w, n)

\* Positive_saturating_pow on the primitive's checked_pow, zero on overflow.
Positive_saturating_pow_or_default(self, rhs) ==
    LET n == checked_pow(self.w, Positive_get(self), Value(rhs))
    IN  IF n.tag = "Some" THEN Positive_new_unchecked(self.w, Value(n))
        ELSE Positive_MIN(self.w)

Positive_saturating_pow(self, rhs) ==
    LET n == saturating_pow(self.w, Positive_get(self), Value(rhs))
    IN  Positive_new_unchecked(self.w, n)

Positive_div(self, rhs) ==
    LET n == div(self.w, Positive_get(self), Positive_get(rhs))
    IN  IF n.tag = "Panic" THEN Panic
        ELSE Positive_new_unchecked(self.w, Value(n))

Positive_rem(self, rhs) ==
    LET n == rem(self.w, Positive_get(self), Positive_get(rhs))
    IN  IF n.tag = "Panic" THEN Panic
        ELSE Positive_new_unchecked(self.w, Value(n))

Positive_div_unsigned(self, rhs) ==
    LET n == unsigned_div(self.w, AsUns(self.w, Positive_get(self)), Value(rhs))
    IN  IF n.tag = "Panic" THEN Panic
        ELSE Positive_new_unchecked(self.w, AsBase(self.w, Value(n)))

Positive_rem_unsigned(self, rhs) ==
    LET n == unsigned_rem(self.w, AsUns(self.w, Positive_get(self)), Value(rhs))
    IN  IF n.tag = "Panic" THEN Panic
        ELSE Positive_new_unchecked(self.w, AsBase(self.w, Value(n)))

\* BitAnd<$base> for $ty, and BitAnd<$ty> for $base.
Positive_bitand_base(self, rhs) ==
    Positive_new_unchecked(self.w, bitand(self.w, Positive_get(self), Value(rhs)))

base_bitand_Positive(self, rhs) ==
    Positive_new_unchecked(rhs.w, bitand(rhs.w, Value(self), Positive_get(rhs)))

\* impl_bit_op! for the positive types.
Positive_bitor(self, rhs) ==
    Positive_new_unchecked(self.w,
        bitor(self.w, Positive_get(self), Positive_get(rhs)))

Positive_bitand(self, rhs) ==
    Positive_new_unchecked(self.w,
        bitand(self.w, Positive_get(self), Positive_get(rhs)))

Positive_bitxor(self, rhs) ==
    Positive_new_unchecked(self.w,
        bitxor(self.w, Positive_get(self), Positive_get(rhs)))

-----------------------------------------------------------------------------
\* impl_negative!: checked operations

\* Negative_checked_abs on the saturating primitive.
Negative_checked_abs_saturating(self) ==
    Some(Positive_new_unchecked(self.w,
                                saturating_abs(self.w, Negative_get(self))))

Negative_checked_abs(self) ==
    LET n == checked_abs(self.w, Negative_get(self))
    IN  IF n.tag = "Some" THEN Some(Positive_new_unchecked(self.w, Value(n)))
        ELSE None

Negative_checked_neg(self) ==
    LET n == checked_neg(self.w, Negative_get(self))
    IN  IF n.tag = "Some" THEN Some(Positive_new_unchecked(self.w, Value(n)))
        ELSE None

Negative_checked_add(self, rhs) ==
    LET n == checked_add(self.w, Negative_get(self), Negative_get(rhs))
    IN  IF n.tag = "Some" THEN Some(Negative_new_unchecked(self.w, Value(n)))
        ELSE None

\* Negative_checked_sub on the primitive's checked_sub, without Negative::new.
Negative_checked_sub_unvalidated(self, rhs) ==
    LET n == checked_sub(self.w, Negative_get(self), Negative_get(rhs))
    IN  IF n.tag = "Some" THEN Some(Negative_new_unchecked(self.w, Value(n)))
        ELSE None

Negative_checked_sub(self, rhs) ==
    LET n == raw_sub(self.w, Negative_get(self), Negative_get(rhs))
    IN  Overflowed(n.ovf, Negative_new(self.w, n.val))

\* Negative_checked_mul on the saturating primitive.
Negative_checked_mul_saturating(self, rhs) ==
    Some(Positive_new_unchecked(self.w,
        saturating_mul(self.w, Negative_get(self), Negative_get(rhs))))

Negative_checked_mul(self, rhs) ==
    LET n == checked_mul(self.w, Negative_get(self), Negative_get(rhs))
    IN  IF n.tag = "Some" THEN Some(Positive_new_unchecked(self.w, Value(n)))
        ELSE None

\* Negative_checked_mul_positive without Negative::new on the product.
Negative_checked_mul_positive_unvalidated(self, rhs) ==
    LET n == checked_mul(self.w, Negative_get(self), Positive_get(rhs))
    IN  IF n.tag = "Some" THEN Some(Negative_new_unchecked(self.w, Value(n)))
        ELSE None

Negative_checked_mul_positive(self, rhs) ==
    LET n == checked_mul(self.w, Negative_get(self), Positive_get(rhs))
    IN  IF n.tag = "Some" THEN Negative_new(self.w, Value(n)) ELSE None

Negative_checked_div(self, rhs) ==
    LET n == checked_div(self.w, Negative_get(self), Negative_get(rhs))
    IN  IF n.tag = "Some" THEN Some(Positive_new_unchecked(self.w, Value(n)))
        ELSE None

\* Negative_checked_div_euclid on the truncating primitive.
Negative_checked_div_euclid_truncating(self, rhs) ==
    LET n == checked_div(self.w, Negative_get(self), Negative_get(rhs))
    IN  IF n.tag = "Some" THEN Some(Positive_new_unchecked(self.w, Value(n)))
        ELSE None

Negative_checked_div_euclid(self, rhs) ==
    LET n == checked_div_euclid(self.w, Negative_get(self), Negative_get(rhs))
    IN  IF n.tag = "Some" THEN Some(Positive_new_unchecked(self.w, Value(n)))
        ELSE None

Negative_checked_rem_euclid(self, rhs) ==
    LET n == rem_euclid(self.w, Negative_get(self), Value(rhs))
    IN  IF n.tag = "Panic" THEN Panic
        ELSE Some(Positive_new_unchecked(self.w, Value(n)))

-----------------------------------------------------------------------------
\* impl_negative!: saturating operations and operators

Negative_saturating_abs(self) ==
    Positive_new_unchecked(self.w, saturating_abs(self.w, Negative_get(self)))

\* Negative_saturating_neg with the complement in place of the negation.
Negative_saturating_neg_complementing(self) ==
    Positive_new_unchecked(self.w, not(self.w, Negative_get(self)))

Negative_saturating_neg(self) ==
    Positive_new_unchecked(self.w, saturating_neg(self.w, Negative_get(self)))

Negative_saturating_add(self, rhs) ==
    LET n == saturating_add(self.w, Negative_get(self), Negative_get(rhs))
    IN  Negative_new_unchecked(self.w, n)

\* Negative_saturating_sub falling back to the other boundary.
Negative_saturating_sub_to_MIN(self, rhs) ==
    LET n == raw_sub(self.w, Negative_get(self), Negative_get(rhs))
        m == Negative_new(self.w, n.val)
    IN  Overflowed(n.ovf, IF m.tag = "Some" THEN Unwrap(m)
                          ELSE Negative_MIN(self.w))

Negative_saturating_sub(self, rhs) ==
    LET n == raw_sub(self.w, Negative_get(self), Negative_get(rhs))
        m == Negative_new(self.w, n.val)
    IN  Overflowed(n.ovf, IF m.tag = "Some" THEN Unwrap(m)
                          ELSE Negative_MAX(self.w))

Negative_saturating_mul(self, rhs) ==
    LET n == saturating_mul(self.w, Negative_get(self), Negative_get(rhs))
    IN  Positive_new_unchecked(self.w, n)

\* Negative_saturating_mul_positive falling back to the other boundary.
Negative_saturating_mul_positive_to_MIN(self, rhs) ==
    LET m == Negative_new(self.w,
                 saturating_mul(self.w, Negative_get(self), Positive_get(rhs)))
    IN  IF m.tag = "Some" THEN Unwrap(m) ELSE Negative_MIN(self.w)

Negative_saturating_mul_positive(self, rhs) ==
    LET m == Negative_new(self.w,
                 saturating_mul(self.w, Negative_get(self), Positive_get(rhs)))
    IN  IF m.tag = "Some" THEN Unwrap(m) ELSE Negative_MAX(self.w)

\* BitOr<$base> for $ty, and BitOr<$ty> for $base.
Negative_bitor_base(self, rhs) ==
    Negative_new_unchecked(self.w, bitor(self.w, Negative_get(self), Value(rhs)))

base_bitor_Negative(self, rhs) ==
    Negative_new_unchecked(rhs.w, bitor(rhs.w, Value(self), Negative_get(rhs)))

\* BitOr<$ty> for $pty, and BitOr<$pty> for $ty.
Positive_bitor_Negative(self, rhs) ==
    Negative_new_unchecked(self.w,
        bitor(self.w, Positive_get(self), Negative_get(rhs)))

Negative_bitor_Positive(self, rhs) ==
    Negative_new_unchecked(self.w,
        bitor(self.w, Negative_get(self), Positive_get(rhs)))

\* BitAnd<$pty> for $ty, and BitAnd<$ty> for $pty.
\* Negative_bitand_Positive with the other operator.
Negative_bitand_Positive_as_bitor(self, rhs) ==
    Positive_new_unchecked(self.w,
        bitor(self.w, Negative_get(self), Positive_get(rhs)))

Negative_bitand_Positive(self, rhs) ==
    Positive_new_unchecked(self.w,
        bitand(self.w, Negative_get(self), Positive_get(rhs)))

Positive_bitand_Negative(self, rhs) ==
    Positive_new_unchecked(self.w,
        bitand(self.w, Positive_get(self), Negative_get(rhs)))

\* BitXor<$pty> for $ty, BitXor<$ty> for $pty, and BitXor for $ty.
Negative_bitxor_Positive(self, rhs) ==
    Negative_new_unchecked(self.w,
        bitxor(self.w, Negative_get(self), Positive_get(rhs)))

Positive_bitxor_Negative(self, rhs) ==
    Negative_new_unchecked(self.w,
        bitxor(self.w, Positive_get(self), Negative_get(rhs)))

\* Negative_bitxor built as a value of the negative type.
Negative_bitxor_as_Negative(self, rhs) ==
    Negative_new_unchecked(self.w,
        bitxor(self.w, Negative_get(self), Negative_get(rhs)))

Negative_bitxor(self, rhs) ==
    Positive_new_unchecked(self.w,
        bitxor(self.w, Negative_get(self), Negative_get(rhs)))

\* Not for $ty, and Not for $pty.
\* Negative_not with the negation in place of the complement.
Negative_not_negating(self) ==
    Positive_new_unchecked(self.w, saturating_neg(self.w, Negative_get(self)))

Negative_not(self) ==
    Positive_new_unchecked(self.w, not(self.w, Negative_get(self)))

Positive_not(self) ==
    Negative_new_unchecked(self.w, not(self.w, Positive_get(self)))

\* impl_bit_op! for the negative types.
Negative_bitor(self, rhs) ==
    Negative_new_unchecked(self.w,
        bitor(self.w, Negative_get(self), Negative_get(rhs)))

Negative_bitand(self, rhs) ==
    Negative_new_unchecked(self.w,
        bitand(self.w, Negative_get(self), Negative_get(rhs)))

-----------------------------------------------------------------------------
\* Conversions between the types and from the primitives

\* impl_from!: From<$from> for $ty, $from unsigned and narrower than $ty.
Positive_from(t, value) == Positive_new_unchecked(t, AsBase(t, Value(value)))

\* impl_from_get!: From<$ty> for $from, $from the wider type.
Positive_from_Positive(t, value) ==
    Positive_new_unchecked(t, AsBase(t, Positive_get(value)))

\* Negative_from_Negative widening through the unsigned type.
Negative_from_Negative_zero_extending(t, value) ==
    Negative_new_unchecked(t, AsUns(value.w, Negative_get(value)))

Negative_from_Negative(t, value) ==
    Negative_new_unchecked(t, AsBase(t, Negative_get(value)))

\* impl_from_get! and impl_try_from!: TryFrom<$from> for $ty.
\* Positive_try_from_Positive through the unsigned primitive.
Positive_try_from_Positive_unsigned(t, value) ==
    LET n == try_from("U", t, Positive_get(value))
    IN  IF n.tag = "Err" THEN Err ELSE Ok(Positive_new_unchecked(t, Value(n)))

Positive_try_from_Positive(t, value) ==
    LET n == try_from("I", t, Positive_get(value))
    IN  IF n.tag = "Err" THEN Err ELSE Ok(Positive_new_unchecked(t, Value(n)))

Negative_try_from_Negative(t, value) ==
    LET n == try_from("I", t, Negative_get(value))
    IN  IF n.tag = "Err" THEN Err ELSE Ok(Negative_new_unchecked(t, Value(n)))

\* The primitive types an impl_positive_try_from! instantiation converts
\* through: the signed one for an unsigned source, the unsigned one for the
\* signed source of the same width, both for the other signed sources.
PositiveVia(t, value) ==
    IF value.pol = "U" THEN <<"I">>
    ELSE IF value.w = t THEN <<"U">> ELSE <<"U", "I">>

\* `$(let value = <$base>::try_from(value)?;)*`
RECURSIVE TryFromEach(_, _, _)
TryFromEach(via, t, value) ==
    IF via = <<>> THEN Ok(value)
    ELSE LET n == try_from(Head(via), t, Value(value))
         IN  IF n.tag = "Err" THEN Err ELSE TryFromEach(Tail(via), t, n)

\* Positive_try_from through the signed primitive only.
Positive_try_from_signed_only(t, value) ==
    LET n == try_from("I", t, Value(value))
    IN  IF n.tag = "Err" THEN Err
        ELSE Ok(Positive_new_unchecked(t, AsBase(t, Value(n))))

\* impl_positive_try_from!: TryFrom<$from> for $ty, $from a primitive.
Positive_try_from(t, value) ==
    LET n == TryFromEach(PositiveVia(t, value), t, value)
    IN  IF n.tag = "Err" THEN Err
        ELSE Ok(Positive_new_unchecked(t, AsBase(t, Value(n))))

\* Negative_try_from taking its error from a conversion that succeeds.
Negative_try_from_unwrapping_ok(t, value) ==
    LET n == try_from("I", t, Value(value))
        e == try_from("I", t, MaxOf(t))
    IN  IF n.tag = "Err" THEN Err
        ELSE IF Negative_new(t, Value(n)) # None
             THEN Ok(Unwrap(Negative_new(t, Value(n))))
             ELSE IF e.tag = "Err" THEN e ELSE Panic

\* impl_negative_try_from!: TryFrom<$from> for $ty, $from a signed primitive.
\* The error is the one of <$base>::try_from(<$uns>::MAX).
Negative_try_from(t, value) ==
    LET n == try_from("I", t, Value(value))
        e == try_from("I", t, UMaxOf(t))
    IN  IF n.tag = "Err" THEN Err
        ELSE IF Negative_new(t, Value(n)) # None
             THEN Ok(Unwrap(Negative_new(t, Value(n))))
             ELSE IF e.tag = "Err" THEN e ELSE Panic

\* impl_primitive_from!: From<$ty> for $from, $from a primitive of polarity
\* pol and width t: `value.get() as _`.
primitive_from_Positive(pol, t, value) == Prim(pol, t, Positive_get(value))
primitive_from_Negative(pol, t, value) == Prim(pol, t, Negative_get(value))

\* impl_primitive_try_from!: TryFrom<$ty> for $from, $from a primitive.
primitive_try_from_Positive(pol, t, value) ==
    try_from(pol, t, Positive_get(value))
primitive_try_from_Negative(pol, t, value) ==
    try_from(pol, t, Negative_get(value))

-----------------------------------------------------------------------------
\* impl_positive!: logarithms.  The results are u32.

U32(n) ==
    [tag |-> "Val", pol |-> "U", w |-> 32, hi |-> 0, buf |-> n, chk |-> "ok"]

\* The logarithm of the primitive, rounded down, for n > 0.
RECURSIVE ilog(_, _)
ilog(b, n) == IF n < b THEN 0 ELSE 1 + ilog(b, n \div b)

\* Positive_ilog2 giving zero for zero.
Positive_ilog2_or_zero(self) ==
    IF Positive_get(self) <= 0 THEN U32(0)
    ELSE U32(ilog(2, Positive_get(self)))

\* $base::ilog2 and ilog10 panic on a number that is not positive.
Positive_ilog2(self) ==
    IF Positive_get(self) <= 0 THEN Panic
    ELSE U32(ilog(2, Positive_get(self)))

Positive_ilog10(self) ==
    IF Positive_get(self) <= 0 THEN Panic
    ELSE U32(ilog(10, Positive_get(self)))

\* $base::checked_ilog2 and checked_ilog10 are None there.
Positive_checked_ilog2(self) ==
    IF Positive_get(self) <= 0 THEN None
    ELSE Some(U32(ilog(2, Positive_get(self))))

Positive_checked_ilog10(self) ==
    IF Positive_get(self) <= 0 THEN None
    ELSE Some(U32(ilog(10, Positive_get(self))))

-----------------------------------------------------------------------------
\* Parsing.  A string is a sequence of characters, held in buf by a value of
\* pol "str".  The Err of from_str is an IntErrorKind: its pol is the variant.

IntErrorKind(kind) == [Err EXCEPT !.pol = kind]

Digits == <<"0", "1", "2", "3", "4", "5", "6", "7", "8", "9">>

\* char::to_digit(10), -1 for None.
to_digit(c) ==
    IF \E i \in 1 .. 10 : Digits[i] = c
    THEN (CHOOSE i \in 1 .. 10 : Digits[i] = c) - 1
    ELSE -1

\* The digit loop of the primitive's parser: each digit is checked, then the
\* result is multiplied by ten and the digit added (subtracted after a minus
\* sign), each step checked for overflow.
RECURSIVE ParseDigits(_, _, _, _, _)
ParseDigits(pol, w, positive, digits, result) ==
    IF digits = <<>> THEN Transmute("Ok", pol, w, result, "ok")
    ELSE LET d == to_digit(Head(digits))
             n == IF positive THEN result * 10 + d ELSE result * 10 - d
             hi == IF pol = "U" THEN UMaxOf(w) ELSE MaxOf(w)
         IN  IF d < 0 THEN IntErrorKind("InvalidDigit")
             ELSE IF n > hi THEN IntErrorKind("PosOverflow")
             ELSE IF n < MinOf(w) THEN IntErrorKind("NegOverflow")
             ELSE ParseDigits(pol, w, positive, Tail(digits), n)

\* s.parse::<t>() for the primitive t of polarity pol and width w.
parse(pol, w, s) ==
    IF s = <<>> THEN IntErrorKind("Empty")
    ELSE IF Len(s) = 1 /\ Head(s) \in {"+", "-"}
         THEN IntErrorKind("InvalidDigit")
    ELSE IF Head(s) = "+" THEN ParseDigits(pol, w, TRUE, Tail(s), 0)
    ELSE IF Head(s) = "-" /\ pol = "I"
         THEN ParseDigits(pol, w, FALSE, Tail(s), 0)
    ELSE ParseDigits(pol, w, TRUE, s, 0)

\* FromStr for the positive types.
Positive_from_str(w, s) ==
    LET n == parse("U", w, s.buf)
        m == Positive_new(w, AsBase(w, Value(n)))
    IN  IF n.tag = "Err" THEN n
        ELSE IF m = None THEN IntErrorKind("PosOverflow")
        ELSE Ok(Unwrap(m))

\* Negative_from_str naming the failure of new by its direction.
Negative_from_str_NegOverflow(w, s) ==
    LET n == parse("I", w, s.buf)
        m == Negative_new(w, Value(n))
    IN  IF n.tag = "Err" THEN n
        ELSE IF m = None THEN IntErrorKind("NegOverflow")
        ELSE Ok(Unwrap(m))

\* FromStr for the negative types.
Negative_from_str(w, s) ==
    LET n == parse("I", w, s.buf)
        m == Negative_new(w, Value(n))
    IN  IF n.tag = "Err" THEN n
        ELSE IF m = None THEN IntErrorKind("PosOverflow")
        ELSE Ok(Unwrap(m))

-----------------------------------------------------------------------------
\* Operands

\* The u32 exponents.
Exp(e) ==
    [tag |-> "Val", pol |-> "U", w |-> 32, hi |-> 0, buf |-> e, chk |-> "ok"]

\* The instances obtained through new from the numbers of S.
PosFrom(w, S) ==
    {Unwrap(Positive_new(w, n)) : n \in {m \in S : Positive_new(w, m) # None}}
NegFrom(w, S) ==
    {Unwrap(Negative_new(w, n)) : n \in {m \in S : Negative_new(w, m) # None}}

Input(u, v) == op = "input" /\ x = u /\ y = v /\ r = Unit

InitBase == \E w \in Widths : \E n \in Base(w) : Input(Prim("I", w, n), Unit)
InitUns == \E w \in Widths : \E n \in Uns(w) : Input(Prim("U", w, n), Unit)
InitPos == \E w \in Widths : \E u \in PosFrom(w, Base(w)) : Input(u, Unit)
InitNeg == \E w \in Widths : \E u \in NegFrom(w, Base(w)) : Input(u, Unit)
InitTypes == Input(Unit, Unit)
InitBaseIn == \E w \in Widths : \E n \in BaseIn(w) : Input(Prim("I", w, n), Unit)
InitUnsIn == \E w \in Widths : \E n \in UnsIn(w) : Input(Prim("U", w, n), Unit)
InitPosIn == \E w \in Widths : \E u \in PosFrom(w, BaseIn(w)) : Input(u, Unit)
InitNegIn == \E w \in Widths : \E u \in NegFrom(w, BaseIn(w)) : Input(u, Unit)
InitPosPos ==
    \E w \in Widths : \E u, v \in PosFrom(w, BaseIn(w)) : Input(u, v)
InitPosNeg ==
    \E w \in Widths :
        \E u \in PosFrom(w, BaseIn(w)), v \in NegFrom(w, BaseIn(w)) : Input(u, v)
InitNegPos ==
    \E w \in Widths :
        \E u \in NegFrom(w, BaseIn(w)), v \in PosFrom(w, BaseIn(w)) : Input(u, v)
InitNegNeg ==
    \E w \in Widths : \E u, v \in NegFrom(w, BaseIn(w)) : Input(u, v)
InitPosUns ==
    \E w \in Widths :
        \E u \in PosFrom(w, BaseIn(w)), n \in UnsIn(w) : Input(u, Prim("U", w, n))
InitPosExp ==
    \E w \in Widths :
        \E u \in PosFrom(w, BaseIn(w)), e \in 0 .. MaxExp : Input(u, Exp(e))
InitPosBase ==
    \E w \in Widths :
        \E u \in PosFrom(w, BaseIn(w)), n \in BaseIn(w) : Input(u, Prim("I", w, n))
InitNegBase ==
    \E w \in Widths :
        \E u \in NegFrom(w, BaseIn(w)), n \in BaseIn(w) : Input(u, Prim("I", w, n))

InitBasePos ==
    \E w \in Widths :
        \E n \in BaseIn(w), v \in PosFrom(w, BaseIn(w)) : Input(Prim("I", w, n), v)
InitBaseNeg ==
    \E w \in Widths :
        \E n \in BaseIn(w), v \in NegFrom(w, BaseIn(w)) : Input(Prim("I", w, n), v)

\* The strings given to from_str: every string of at most MaxLen characters,
\* and the numerals around the boundaries, bare, signed, zero-padded and with
\* a trailing letter.
Str(s) ==
    [tag |-> "Val", pol |-> "str", w |-> 0, hi |-> 0, buf |-> s, chk |-> "ok"]

Chars == {Digits[i] : i \in 1 .. 10} \cup {"+", "-", "a"}

RECURSIVE ToStr(_)
ToStr(n) ==
    IF n < 10 THEN <<Digits[n + 1]>>
    ELSE ToStr(n \div 10) \o <<Digits[(n % 10) + 1]>>

Numerals == {ToStr(Abs(n)) : n \in Edges}

Strings ==
    UNION {[1 .. k -> Chars] : k \in 0 .. MaxLen}
        \cup Numerals
        \cup {<<"-">> \o s : s \in Numerals}
        \cup {<<"+">> \o s : s \in Numerals}
        \cup {<<"0">> \o s : s \in Numerals}
        \cup {s \o <<"a">> : s \in Numerals}

InitStr == \E s \in Strings : Input(Str(s), Unit)

\* The operands of the state are of these types.
Nullary == op = "input" /\ x = Unit /\ y = Unit
Unary(pol) == op = "input" /\ x.tag = "Val" /\ x.pol = pol /\ y = Unit
Binary(pol, qol) ==
    /\ op = "input"
    /\ x.tag = "Val" /\ x.pol = pol
    /\ y.tag = "Val" /\ y.pol = qol
    /\ (y.w = x.w \/ y.w = 32)

\* get hands the optimizer assert_unchecked: on an instance whose bytes are
\* not a value of its type the call is undefined.
Read(res) ==
    IF ValidBytes(x) /\ ValidBytes(y) THEN res
    ELSE [res EXCEPT !.chk = "assert_unchecked"]

\* The outcomes the builds can produce for a computed result.
Outcomes(v) ==
    IF v.chk = "ok" THEN {v} ELSE {v, [Panic EXCEPT !.chk = v.chk]}

Call(name, res) ==
    /\ op' = name
    /\ r' \in Outcomes(Read(res))
    /\ UNCHANGED <<x, y>>

\* Assign storing nothing: the operator runs and the variable keeps its value.
Assign_discarding(name, res) ==
    /\ op' = name
    /\ y' = y
    /\ x' = x
    /\ \E o \in Outcomes(Read(res)) :
        r' = IF o.tag = "Panic" THEN o ELSE [Unit EXCEPT !.chk = o.chk]

\* `*self = op(*self, rhs)`: the result replaces the first operand, unless the
\* operator panicked.
Assign(name, res) ==
    /\ op' = name
    /\ y' = y
    /\ \E o \in Outcomes(Read(res)) :
        /\ r' = IF o.tag = "Panic" THEN o ELSE [Unit EXCEPT !.chk = o.chk]
        /\ x' = IF o.tag = "Panic" THEN x ELSE Unwrap(o)

-----------------------------------------------------------------------------
\* Actions

New ==
    \/ Unary("I") /\ Call("Positive::new", Positive_new(x.w, Value(x)))
    \/ Unary("I") /\ Call("Negative::new", Negative_new(x.w, Value(x)))

\* The associated constants and default of a type, which take no operand.
Constants ==
    \/ \E w \in Widths : Nullary /\ Call("Positive::MIN", Positive_MIN(w))
    \/ \E w \in Widths : Nullary /\ Call("Positive::MAX", Positive_MAX(w))
    \/ \E w \in Widths :
        Nullary /\ Call("Positive::default", Positive_default(w))
    \/ \E w \in Widths : Nullary /\ Call("Negative::MIN", Negative_MIN(w))
    \/ \E w \in Widths : Nullary /\ Call("Negative::MAX", Negative_MAX(w))

PositiveChecked ==
    \/ Unary("Pos") /\ Call("Positive::checked_neg", Positive_checked_neg(x))
    \/ Binary("Pos", "Pos")
        /\ Call("Positive::checked_add", Positive_checked_add(x, y))
    \/ Binary("Pos", "Pos")
        /\ Call("Positive::checked_sub", Positive_checked_sub(x, y))
    \/ Binary("Pos", "Pos")
        /\ Call("Positive::checked_mul", Positive_checked_mul(x, y))
    \/ Binary("Pos", "Pos")
        /\ Call("Positive::checked_div", Positive_checked_div(x, y))
    \/ Binary("Pos", "Pos")
        /\ Call("Positive::checked_rem", Positive_checked_rem(x, y))
    \/ Binary("Pos", "U") /\ y.w = x.w
        /\ Call("Positive::checked_div_unsigned",
                Positive_checked_div_unsigned(x, y))
    \/ Binary("Pos", "U") /\ y.w = x.w
        /\ Call("Positive::checked_rem_unsigned",
                Positive_checked_rem_unsigned(x, y))
    \/ Binary("Pos", "U") /\ y.w = 32
        /\ Call("Positive::checked_pow", Positive_checked_pow(x, y))
    \/ Unary("Pos")
        /\ Call("Positive::checked_next_power_of_two",
                Positive_checked_next_power_of_two(x))

NegativeChecked ==
    \/ Unary("Neg") /\ Call("Negative::checked_abs", Negative_checked_abs(x))
    \/ Unary("Neg") /\ Call("Negative::checked_neg", Negative_checked_neg(x))
    \/ Binary("Neg", "Neg")
        /\ Call("Negative::checked_add", Negative_checked_add(x, y))
    \/ Binary("Neg", "Neg")
        /\ Call("Negative::checked_sub", Negative_checked_sub(x, y))
    \/ Binary("Neg", "Neg")
        /\ Call("Negative::checked_mul", Negative_checked_mul(x, y))
    \/ Binary("Neg", "Pos")
        /\ Call("Negative::checked_mul_positive",
                Negative_checked_mul_positive(x, y))
    \/ Binary("Neg", "Neg")
        /\ Call("Negative::checked_div", Negative_checked_div(x, y))
    \/ Binary("Neg", "Neg")
        /\ Call("Negative::checked_div_euclid",
                Negative_checked_div_euclid(x, y))
    \/ Binary("Neg", "I")
        /\ Call("Negative::checked_rem_euclid",
                Negative_checked_rem_euclid(x, y))

PositiveSaturating ==
    \/ Binary("Pos", "Pos")
        /\ Call("Positive::saturating_add", Positive_saturating_add(x, y))
    \/ Binary("Pos", "Pos")
        /\ Call("Positive::saturating_sub", Positive_saturating_sub(x, y))
    \/ Binary("Pos", "Pos")
        /\ Call("Positive::saturating_mul", Positive_saturating_mul(x, y))
    \/ Binary("Pos", "U") /\ y.w = 32
        /\ Call("Positive::saturating_pow", Positive_saturating_pow(x, y))

PositiveOperators ==
    \/ Binary("Pos", "Pos") /\ Call("Positive::div", Positive_div(x, y))
    \/ Binary("Pos", "Pos") /\ Call("Positive::rem", Positive_rem(x, y))
    \/ Binary("Pos", "U") /\ y.w = x.w
        /\ Call("Positive::div<uns>", Positive_div_unsigned(x, y))
    \/ Binary("Pos", "U") /\ y.w = x.w
        /\ Call("Positive::rem<uns>", Positive_rem_unsigned(x, y))
    \/ Binary("Pos", "I")
        /\ Call("Positive::bitand<base>", Positive_bitand_base(x, y))
    \/ Binary("I", "Pos")
        /\ Call("base::bitand<Positive>", base_bitand_Positive(x, y))
    \/ Binary("Pos", "Pos") /\ Call("Positive::bitor", Positive_bitor(x, y))
    \/ Binary("Pos", "Pos") /\ Call("Positive::bitand", Positive_bitand(x, y))
    \/ Binary("Pos", "Pos") /\ Call("Positive::bitxor", Positive_bitxor(x, y))
    \/ Binary("Pos", "Neg")
        /\ Call("Positive::bitor<Negative>", Positive_bitor_Negative(x, y))
    \/ Binary("Pos", "Neg")
        /\ Call("Positive::bitand<Negative>", Positive_bitand_Negative(x, y))
    \/ Binary("Pos", "Neg")
        /\ Call("Positive::bitxor<Negative>", Positive_bitxor_Negative(x, y))
    \/ Unary("Pos") /\ Call("Positive::not", Positive_not(x))

PositiveAssign ==
    \/ Binary("Pos", "Pos")
        /\ Assign("Positive::div_assign", Positive_div(x, y))
    \/ Binary("Pos", "Pos")
        /\ Assign("Positive::rem_assign", Positive_rem(x, y))
    \/ Binary("Pos", "U") /\ y.w = x.w
        /\ Assign("Positive::div_assign<uns>", Positive_div_unsigned(x, y))
    \/ Binary("Pos", "U") /\ y.w = x.w
        /\ Assign("Positive::rem_assign<uns>", Positive_rem_unsigned(x, y))
    \/ Binary("Pos", "I")
        /\ Assign("Positive::bitand_assign<base>", Positive_bitand_base(x, y))
    \/ Binary("Pos", "Pos")
        /\ Assign("Positive::bitor_assign", Positive_bitor(x, y))
    \/ Binary("Pos", "Pos")
        /\ Assign("Positive::bitand_assign", Positive_bitand(x, y))
    \/ Binary("Pos", "Pos")
        /\ Assign("Positive::bitxor_assign", Positive_bitxor(x, y))
    \/ Binary("Pos", "Neg")
        /\ Assign("Positive::bitand_assign<Negative>",
                  Positive_bitand_Negative(x, y))

NegativeSaturating ==
    \/ Unary("Neg")
        /\ Call("Negative::saturating_abs", Negative_saturating_abs(x))
    \/ Unary("Neg")
        /\ Call("Negative::saturating_neg", Negative_saturating_neg(x))
    \/ Binary("Neg", "Neg")
        /\ Call("Negative::saturating_add", Negative_saturating_add(x, y))
    \/ Binary("Neg", "Neg")
        /\ Call("Negative::saturating_sub", Negative_saturating_sub(x, y))
    \/ Binary("Neg", "Neg")
        /\ Call("Negative::saturating_mul", Negative_saturating_mul(x, y))
    \/ Binary("Neg", "Pos")
        /\ Call("Negative::saturating_mul_positive",
                Negative_saturating_mul_positive(x, y))

NegativeOperators ==
    \/ Binary("Neg", "I")
        /\ Call("Negative::bitor<base>", Negative_bitor_base(x, y))
    \/ Binary("I", "Neg")
        /\ Call("base::bitor<Negative>", base_bitor_Negative(x, y))
    \/ Binary("Neg", "Pos")
        /\ Call("Negative::bitor<Positive>", Negative_bitor_Positive(x, y))
    \/ Binary("Neg", "Pos")
        /\ Call("Negative::bitand<Positive>", Negative_bitand_Positive(x, y))
    \/ Binary("Neg", "Pos")
        /\ Call("Negative::bitxor<Positive>", Negative_bitxor_Positive(x, y))
    \/ Binary("Neg", "Neg") /\ Call("Negative::bitxor", Negative_bitxor(x, y))
    \/ Binary("Neg", "Neg") /\ Call("Negative::bitor", Negative_bitor(x, y))
    \/ Binary("Neg", "Neg") /\ Call("Negative::bitand", Negative_bitand(x, y))
    \/ Unary("Neg") /\ Call("Negative::not", Negative_not(x))

NegativeAssign ==
    \/ Binary("Neg", "I")
        /\ Assign("Negative::bitor_assign<base>", Negative_bitor_base(x, y))
    \/ Binary("Neg", "Pos")
        /\ Assign("Negative::bitor_assign<Positive>",
                  Negative_bitor_Positive(x, y))
    \/ Binary("Neg", "Pos")
        /\ Assign("Negative::bitxor_assign<Positive>",
                  Negative_bitxor_Positive(x, y))
    \/ Binary("Neg", "Neg")
        /\ Assign("Negative::bitor_assign", Negative_bitor(x, y))
    \/ Binary("Neg", "Neg")
        /\ Assign("Negative::bitand_assign", Negative_bitand(x, y))

\* The conversions the crate instantiates between the widths of the model.
Conversions ==
    \/ Unary("U") /\ x.w = W8
        /\ Call("Positive::from<uns>", Positive_from(W16, x))
    \/ Unary("Pos") /\ x.w = W8
        /\ Call("Positive::from<Positive>", Positive_from_Positive(W16, x))
    \/ Unary("Neg") /\ x.w = W8
        /\ Call("Negative::from<Negative>", Negative_from_Negative(W16, x))
    \/ Unary("Pos") /\ x.w = W16
        /\ Call("Positive::try_from<Positive>",
                Positive_try_from_Positive(W8, x))
    \/ Unary("Neg") /\ x.w = W16
        /\ Call("Negative::try_from<Negative>",
                Negative_try_from_Negative(W8, x))
    \/ \E t \in Widths :
        /\ Unary("U") /\ x.w >= t
        /\ Call("Positive::try_from<uns>", Positive_try_from(t, x))
    \/ \E t \in Widths :
        /\ Unary("I")
        /\ Call("Positive::try_from<base>", Positive_try_from(t, x))
    \/ \E t \in Widths :
        /\ Unary("I")
        /\ Call("Negative::try_from<base>", Negative_try_from(t, x))
    \/ \E pol \in {"U", "I"}, t \in Widths :
        /\ Unary("Pos") /\ x.w <= t
        /\ Call("primitive::from<Positive>", primitive_from_Positive(pol, t, x))
    \/ \E t \in Widths :
        /\ Unary("Neg") /\ x.w <= t
        /\ Call("primitive::from<Negative>", primitive_from_Negative("I", t, x))
    \/ \E pol \in {"U", "I"} :
        /\ Unary("Pos") /\ x.w = W16
        /\ Call("primitive::try_from<Positive>",
                primitive_try_from_Positive(pol, W8, x))
    \/ Unary("Neg") /\ x.w = W16
        /\ Call("primitive::try_from<Negative>",
                primitive_try_from_Negative("I", W8, x))

PositiveLog ==
    \/ Unary("Pos") /\ Call("Positive::ilog2", Positive_ilog2(x))
    \/ Unary("Pos") /\ Call("Positive::ilog10", Positive_ilog10(x))
    \/ Unary("Pos")
        /\ Call("Positive::checked_ilog2", Positive_checked_ilog2(x))
    \/ Unary("Pos")
        /\ Call("Positive::checked_ilog10", Positive_checked_ilog10(x))

FromStr ==
    \/ \E w \in Widths :
        Unary("str") /\ Call("Positive::from_str", Positive_from_str(w, x))
    \/ \E w \in Widths :
        Unary("str") /\ Call("Negative::from_str", Negative_from_str(w, x))

\* The caller makes a result the operand of its next call.  The values fed
\* are those the model gives as operands, and every instance that is not a
\* value of its type.
Feed ==
    /\ IsInstance(r)
    /\ Value(r) \in BaseIn(r.w) \/ ~ValidBytes(r)
    /\ op' = "input"
    /\ r' = Unit
    /\ \/ x' = Unwrap(r) /\ y' = y
       \/ x' = x /\ y' = Unwrap(r) /\ y # Unit

-----------------------------------------------------------------------------
\* Specifications

InitCore == InitBase \/ InitTypes
InitPositiveChecked == InitPos \/ InitPosPos \/ InitPosUns \/ InitPosExp
InitNegativeChecked == InitNeg \/ InitNegNeg \/ InitNegPos \/ InitNegBase
InitPositiveOperators ==
    InitPos \/ InitPosPos \/ InitPosUns \/ InitPosBase \/ InitBasePos
        \/ InitPosNeg
InitNegativeOperators ==
    InitNeg \/ InitNegNeg \/ InitNegPos \/ InitNegBase \/ InitBaseNeg
InitConversions == InitBase \/ InitUns \/ InitPos \/ InitNeg

\* The operands of Spec: at width 8 all of them, at width 16 those around the
\* boundaries.
InitUnary ==
    InitTypes \/ InitBaseIn \/ InitUnsIn \/ InitPosIn \/ InitNegIn \/ InitStr
InitBinary ==
    \/ InitPosPos \/ InitPosNeg \/ InitPosUns \/ InitPosExp \/ InitPosBase
    \/ InitNegNeg \/ InitNegPos \/ InitNegBase
    \/ InitBasePos \/ InitBaseNeg

Init == InitUnary \/ InitBinary

Core == New \/ Constants

Next ==
    \/ Core
    \/ PositiveChecked
    \/ PositiveSaturating
    \/ PositiveOperators
    \/ PositiveAssign
    \/ NegativeChecked
    \/ NegativeSaturating
    \/ NegativeOperators
    \/ NegativeAssign
    \/ Conversions
    \/ PositiveLog
    \/ FromStr
    \/ Feed

\* Every operation, on the operands of every kind and on the results fed back.
Spec == Init /\ [][Next]_vars

\* The constructors and constants alone.
SpecCore == InitCore /\ [][Core]_vars
\* The checked operations of the positive types alone.
SpecPositiveChecked == InitPositiveChecked /\ [][PositiveChecked]_vars
\* The checked operations of the negative types alone.
SpecNegativeChecked == InitNegativeChecked /\ [][NegativeChecked]_vars
\* The checked operations of both.
SpecChecked ==
    (InitPositiveChecked \/ InitNegativeChecked)
        /\ [][PositiveChecked \/ NegativeChecked]_vars

\* The saturating operations alone.
InitSaturating ==
    InitPosPos \/ InitPosExp \/ InitNeg \/ InitNegNeg \/ InitNegPos
SpecSaturating ==
    InitSaturating /\ [][PositiveSaturating \/ NegativeSaturating]_vars

\* The operators alone.
SpecOperators ==
    (InitPositiveOperators \/ InitNegativeOperators)
        /\ [][PositiveOperators \/ NegativeOperators]_vars

\* The conversions alone.
SpecConversions == InitConversions /\ [][Conversions]_vars

\* Parsing alone.
SpecFromStr == InitStr /\ [][FromStr]_vars

\* The logarithms alone.
SpecPositiveLog == InitPos /\ [][PositiveLog]_vars

\* The compound assignments alone.
InitAssign ==
    InitPosPos \/ InitPosUns \/ InitPosBase \/ InitPosNeg
        \/ InitNegNeg \/ InitNegPos \/ InitNegBase
SpecAssign == InitAssign /\ [][PositiveAssign \/ NegativeAssign]_vars

-----------------------------------------------------------------------------
\* Properties

\* v is Some of the instance of polarity pol and width w holding n, computed
\* without running into a build-dependent check.
IsSome(v, pol, w, n) ==
    /\ v.tag = "Some" /\ v.pol = pol /\ v.w = w /\ v.chk = "ok"
    /\ Value(v) = n

InRange(v) ==
    CASE v.pol = "Pos" -> 0 <= Value(v) /\ Value(v) <= MaxOf(v.w)
      [] v.pol = "Neg" -> MinOf(v.w) <= Value(v) /\ Value(v) < 0
      [] OTHER -> TRUE

\* C1: Positive::new(v) is Some(x) with x.get() = v exactly when v >= 0 and
\* None when v < 0; Negative::new(v) is Some(x) with x.get() = v exactly when
\* v < 0 and None when v >= 0; new never panics.
C1_NewAcceptsExactlyThePolarity ==
    /\ op = "Positive::new" =>
        IF Value(x) >= 0
        THEN IsSome(r, "Pos", x.w, Value(x)) /\ Positive_get(r) = Value(x)
        ELSE r = None
    /\ op = "Negative::new" =>
        IF Value(x) < 0
        THEN IsSome(r, "Neg", x.w, Value(x)) /\ Negative_get(r) = Value(x)
        ELSE r = None

C1_Witness == op = "Positive::new" /\ Value(x) = 0 /\ r.tag = "Some"

\* C2: every Positive value an operation produces, and every one a caller
\* then holds, is in 0 ..= MAX, every Negative one in MIN ..= -1, and no call
\* of new_unchecked is made with an argument its debug_assert refuses.
C2_PolarityKept ==
    /\ \A v \in {x, y, r} : IsInstance(v) => InRange(v) /\ ValidBytes(v)
    /\ r.chk # "debug_assert"

C2_Witness ==
    /\ op = "Negative::bitxor"
    /\ Value(x) = -1 /\ Value(y) = -1
    /\ r.pol = "Pos" /\ Value(r) = 0

\* The valid bit patterns of a type leave the low bytes free: every high
\* byte of the enum with every low bytes is a value new accepts.
LowBytesUnconstrained ==
    \A w \in Widths : \A l \in 0 .. (2 ^ (w - 8) - 1) :
        /\ \A h \in 0 .. 127 :
            LET v == Positive_new(w, AsBase(w, h * (2 ^ (w - 8)) + l))
            IN  v.tag = "Some" /\ v.hi = h /\ v.buf = l
        /\ \A h \in 128 .. 255 :
            LET v == Negative_new(w, AsBase(w, h * (2 ^ (w - 8)) + l))
            IN  v.tag = "Some" /\ v.hi = h /\ v.buf = l

\* C3: the most significant byte of a valid value is in 0 ..= 127 for a
\* positive type and in 128 ..= 255 for a negative one, the two sets are
\* disjoint and cover the 256 byte values, the other bytes are unconstrained,
\* and each type leaves at least 128 high-byte values unused.
C3_HighByteHalves ==
    /\ IsInstance(r) /\ r.pol = "Pos" =>
        r.hi \in 0 .. 127 /\ r.hi \in PositiveHighByte
    /\ IsInstance(r) /\ r.pol = "Neg" =>
        r.hi \in 128 .. 255 /\ r.hi \in NegativeHighByte
    /\ op = "Positive::new" =>
        (r.tag = "Some" <=> HighByte(x.w, Value(x)) \in 0 .. 127)
    /\ op = "Negative::new" =>
        (r.tag = "Some" <=> HighByte(x.w, Value(x)) \in 128 .. 255)
    /\ PositiveHighByte \cap NegativeHighByte = {}
    /\ PositiveHighByte \cup NegativeHighByte = 0 .. 255
    /\ Cardinality((0 .. 255) \ PositiveHighByte) >= 128
    /\ Cardinality((0 .. 255) \ NegativeHighByte) >= 128
    /\ LowBytesUnconstrained

C3_Witness ==
    /\ op = "Negative::new" /\ x.w = W16 /\ Value(x) = -1
    /\ r.tag = "Some" /\ r.hi = 255 /\ r.buf = 255

ZeroDivisorOps ==
    {"Positive::checked_div", "Positive::checked_rem",
     "Positive::checked_div_unsigned", "Positive::checked_rem_unsigned",
     "Negative::checked_rem_euclid"}

\* C5: a checked division or remainder whose divisor can be zero returns
\* None when the divisor is zero, and never panics.
C5_ZeroDivisorIsNone ==
    op \in ZeroDivisorOps /\ Value(y) = 0 => r = None /\ r.tag # "Panic"

\* C6: Negative checked_rem_euclid(b) is the primitive's checked_rem_euclid:
\* None when b = 0 or when a = MIN and b = -1, and otherwise Some of the
\* Positive holding the Euclidean remainder, 0 <= r < |b|.
C6_RemEuclidIsChecked ==
    op = "Negative::checked_rem_euclid" =>
        IF Value(y) = 0 \/ (Value(x) = MinOf(x.w) /\ Value(y) = -1)
        THEN r = None
        ELSE /\ \E q \in Base(x.w) :
                IsSome(r, "Pos", x.w, Value(x) - q * Value(y))
             /\ 0 <= Value(r) /\ Value(r) < Abs(Value(y))

\* The result of a checked operation of a positive type: Some(n) when n is
\* in the range, None otherwise.
PositiveOrNone(v, w, n) ==
    IF 0 <= n /\ n <= MaxOf(w) THEN IsSome(v, "Pos", w, n) ELSE v = None

\* C7: Positive checked_add, checked_sub, checked_mul, checked_div,
\* checked_rem and checked_pow are the exact result when it is in 0 ..= MAX
\* and None otherwise: None on overflow, for checked_sub when a < b, for
\* checked_div and checked_rem when b = 0; the raw subtraction of checked_sub
\* never overflows.
C7_PositiveCheckedExact ==
    LET m == Value(x)
        n == Value(y)
    IN  /\ op = "Positive::checked_add" => PositiveOrNone(r, x.w, m + n)
        /\ op = "Positive::checked_sub" =>
            /\ PositiveOrNone(r, x.w, m - n)
            /\ r.chk = "ok" /\ r.tag # "Panic"
            /\ (r.tag = "Some") = (m >= n)
        /\ op = "Positive::checked_mul" => PositiveOrNone(r, x.w, m * n)
        /\ op = "Positive::checked_div" =>
            IF n = 0 THEN r = None ELSE IsSome(r, "Pos", x.w, m \div n)
        /\ op = "Positive::checked_rem" =>
            IF n = 0 THEN r = None ELSE IsSome(r, "Pos", x.w, m % n)
        /\ op = "Positive::checked_pow" =>
            PositiveOrNone(r, x.w, PowCapped(x.w, m, n))

C7_Witness ==
    /\ op = "Positive::checked_sub"
    /\ Value(x) = 3 /\ Value(y) = 5
    /\ r = None

\* C8: Negative a.checked_mul(b) is the Positive holding |a| * |b| when that
\* is <= MAX and None otherwise (MIN * -1 is None); it is never zero or
\* negative.
C8_NegativeMulIsPositive ==
    op = "Negative::checked_mul" =>
        /\ PositiveOrNone(r, x.w, Abs(Value(x)) * Abs(Value(y)))
        /\ r.tag = "Some" => r.pol = "Pos" /\ Value(r) > 0
        /\ Value(x) = MinOf(x.w) /\ Value(y) = -1 => r = None

C8_Witness ==
    /\ op = "Negative::checked_mul"
    /\ Value(x) = MinOf(x.w) /\ Value(y) = -1
    /\ r = None

\* C9: Negative checked_div and checked_div_euclid are None exactly when
\* a = MIN and b = -1, and otherwise Some of the Positive holding the
\* truncated, resp. Euclidean, quotient, which is >= 0.
C9_NegativeDivOverflowsOnce ==
    LET m == Value(x)
        n == Value(y)
    IN  /\ op \in {"Negative::checked_div", "Negative::checked_div_euclid"} =>
            /\ (r = None) = (m = MinOf(x.w) /\ n = -1)
            /\ r # None => r.tag = "Some" /\ r.pol = "Pos" /\ r.w = x.w
                           /\ r.chk = "ok" /\ Value(r) >= 0
        \* truncated: the remainder has the sign of the dividend
        /\ op = "Negative::checked_div" /\ r # None =>
            /\ m - Value(r) * n <= 0
            /\ m - Value(r) * n > n
        \* Euclidean: the remainder is not negative
        /\ op = "Negative::checked_div_euclid" /\ r # None =>
            /\ m - Value(r) * n >= 0
            /\ m - Value(r) * n < -n

C9_Witness ==
    /\ op = "Negative::checked_div"
    /\ x.w = W8 /\ Value(x) = -100 /\ Value(y) = -1
    /\ r.tag = "Some" /\ r.pol = "Pos" /\ Value(r) = 100

\* C10: Negative checked_abs and checked_neg are None exactly when n = MIN
\* and otherwise Some of the Positive holding -n, which is >= 1; the two
\* agree on every input.
C10_NegativeAbsNeg ==
    /\ op \in {"Negative::checked_abs", "Negative::checked_neg"} =>
        /\ IF Value(x) = MinOf(x.w) THEN r = None
           ELSE IsSome(r, "Pos", x.w, -Value(x)) /\ Value(r) >= 1
    /\ op = "Negative::checked_abs" => r = Negative_checked_neg(x)
    /\ op = "Negative::checked_neg" => r = Negative_checked_abs(x)

C10_Witness ==
    /\ op = "Negative::checked_abs"
    /\ Value(x) = MinOf(x.w) /\ r = None

\* C11 as the specification states it: Positive checked_neg is None for
\* every p > 0 and returns a value of the negative type only for p = 0.
C11_NoneUnlessZero ==
    op = "Positive::checked_neg" =>
        /\ Value(x) > 0 => r = None
        /\ r.tag = "Some" => Value(x) = 0

\* C11, amended: Positive checked_neg is None exactly for p = 0, and for
\* every p > 0 it returns a value of the negative sibling type.
C11_NoneOnlyAtZero ==
    op = "Positive::checked_neg" =>
        /\ (r = None) = (Value(x) = 0)
        /\ Value(x) > 0 => r.tag = "Some" /\ r.pol = "Neg" /\ r.w = x.w

C11_Witness ==
    /\ op = "Positive::checked_neg"
    /\ Value(x) = 0 /\ r = None

\* C12: Positive checked_neg is None if and only if p = 0; for p > 0 it is
\* Some of the negative sibling holding -p, which is the primitive's
\* checked_neg followed by Negative::new; the raw negation never overflows.
C12_NegIsCheckedNegThenNew ==
    op = "Positive::checked_neg" =>
        LET p == checked_neg(x.w, Value(x))
        IN  /\ IF Value(x) = 0 THEN r = None
               ELSE IsSome(r, "Neg", x.w, -Value(x))
            /\ p # None /\ r = Negative_new(x.w, Value(p))
            /\ r.chk = "ok" /\ r.tag # "Panic"
            /\ ~raw_neg(x.w, Value(x)).ovf

C12_Witness ==
    /\ op = "Positive::checked_neg"
    /\ x.w = W16 /\ Value(x) = MaxOf(W16)
    /\ r.tag = "Some" /\ r.pol = "Neg" /\ Value(r) = MinOf(W16) + 1

\* The result of a checked operation of a negative type: Some(n) when n is
\* in the range, None otherwise.
NegativeOrNone(v, w, n) ==
    IF MinOf(w) <= n /\ n < 0 THEN IsSome(v, "Neg", w, n) ELSE v = None

\* C13: Negative a.checked_add(b) is Some(a + b) exactly when a + b >= MIN
\* and None otherwise; a.checked_sub(b) is Some(a - b) exactly when a < b and
\* None when a >= b, so a.checked_sub(a) is None; the raw subtraction never
\* overflows.
C13_NegativeAddSub ==
    LET m == Value(x)
        n == Value(y)
    IN  /\ op = "Negative::checked_add" =>
            /\ NegativeOrNone(r, x.w, m + n)
            /\ (r.tag = "Some") = (m + n >= MinOf(x.w))
        /\ op = "Negative::checked_sub" =>
            /\ IF m < n THEN IsSome(r, "Neg", x.w, m - n) ELSE r = None
            /\ m = n => r = None
            /\ r.chk = "ok" /\ r.tag # "Panic"
            /\ ~raw_sub(x.w, m, n).ovf

C13_Witness ==
    /\ op = "Negative::checked_sub"
    /\ Value(x) = -5 /\ Value(y) = -5
    /\ r = None

\* C14: Negative a.checked_mul_positive(b), b Positive, is None when b = 0 or
\* a * b < MIN and otherwise Some of the Negative holding a * b: the
\* primitive's checked_mul followed by Negative::new.
C14_MulPositiveIsNegative ==
    op = "Negative::checked_mul_positive" =>
        LET m == Value(x)
            n == Value(y)
            p == checked_mul(x.w, m, n)
        IN  /\ IF n = 0 \/ m * n < MinOf(x.w) THEN r = None
               ELSE IsSome(r, "Neg", x.w, m * n)
            /\ r = IF p = None THEN None ELSE Negative_new(x.w, Value(p))

C14_Witness ==
    /\ op = "Negative::checked_mul_positive"
    /\ Value(x) = -3 /\ Value(y) = 0 /\ y.pol = "Pos"
    /\ r = None

\* v is the instance of polarity pol and width w holding n, returned without
\* a failure and without running into a build-dependent check.
IsVal(v, pol, w, n) ==
    /\ v.tag = "Val" /\ v.pol = pol /\ v.w = w /\ v.chk = "ok"
    /\ Value(v) = n

Min(m, n) == IF m <= n THEN m ELSE n
Max(m, n) == IF m >= n THEN m ELSE n

\* C15: saturating_sub never fails and never leaves the polarity range: for
\* Positive a, b it is max(a - b, 0); for Negative a, b it is min(a - b, -1),
\* so it is -1 whenever a >= b.
C15_SaturatingSub ==
    LET m == Value(x)
        n == Value(y)
    IN  /\ op = "Positive::saturating_sub" =>
            /\ IsVal(r, "Pos", x.w, Max(m - n, 0))
            /\ InRange(r)
        /\ op = "Negative::saturating_sub" =>
            /\ IsVal(r, "Neg", x.w, Min(m - n, -1))
            /\ InRange(r)
            /\ m >= n => Value(r) = -1

C15_Witness ==
    /\ op = "Negative::saturating_sub"
    /\ Value(x) = -7 /\ Value(y) = -7
    /\ r.tag = "Val" /\ r.pol = "Neg" /\ Value(r) = -1

\* The saturating operation returns what the checked one holds, when it
\* holds a value.
SameAsChecked(checked) == checked.tag = "Some" => r = Unwrap(checked)

\* C16: saturating_add, saturating_mul and saturating_pow never fail; for
\* Positive operands they are the exact result when it is <= MAX and Positive
\* MAX otherwise; Negative saturating_add is the exact sum when it is >= MIN
\* and Negative MIN otherwise; Negative saturating_mul is the Positive holding
\* the exact product when it is <= MAX and Positive MAX otherwise.  When the
\* matching checked operation returns Some(v), the saturating one returns v.
C16_SaturatingClamps ==
    LET m == Value(x)
        n == Value(y)
        w == x.w
    IN  /\ op = "Positive::saturating_add" =>
            /\ IsVal(r, "Pos", w, Min(m + n, MaxOf(w)))
            /\ SameAsChecked(Positive_checked_add(x, y))
        /\ op = "Positive::saturating_mul" =>
            /\ IsVal(r, "Pos", w, Min(m * n, MaxOf(w)))
            /\ SameAsChecked(Positive_checked_mul(x, y))
        /\ op = "Positive::saturating_pow" =>
            /\ IsVal(r, "Pos", w, Min(PowCapped(w, m, n), MaxOf(w)))
            /\ SameAsChecked(Positive_checked_pow(x, y))
        /\ op = "Negative::saturating_add" =>
            /\ IsVal(r, "Neg", w, Max(m + n, MinOf(w)))
            /\ SameAsChecked(Negative_checked_add(x, y))
        /\ op = "Negative::saturating_mul" =>
            /\ IsVal(r, "Pos", w, Min(m * n, MaxOf(w)))
            /\ SameAsChecked(Negative_checked_mul(x, y))

C16_Witness ==
    /\ op = "Positive::saturating_pow"
    /\ x.w = W8 /\ Value(x) = 2 /\ Value(y) = 7
    /\ r.tag = "Val" /\ Value(r) = MaxOf(W8)

\* C17: for every Negative n, saturating_abs and saturating_neg are the
\* Positive sibling holding -n when n # MIN and the Positive sibling's MAX
\* when n = MIN; they never fail and agree with each other.
C17_SaturatingAbsNeg ==
    /\ op \in {"Negative::saturating_abs", "Negative::saturating_neg"} =>
        IsVal(r, "Pos", x.w,
              IF Value(x) = MinOf(x.w) THEN MaxOf(x.w) ELSE -Value(x))
    /\ op = "Negative::saturating_abs" => r = Negative_saturating_neg(x)
    /\ op = "Negative::saturating_neg" =>
        r = Negative_saturating_abs(x) /\ r # Positive_MIN(x.w)

C17_Witness ==
    /\ op = "Negative::saturating_neg"
    /\ Value(x) = MinOf(x.w)
    /\ r = Positive_MAX(x.w)

\* C18: the complement is total and exact and crosses polarity: for every
\* Negative n, !n is the Positive holding -n - 1 >= 0, for every Positive p,
\* !p is the Negative holding -p - 1 < 0; it never fails, and applied twice
\* it returns the original value.
C18_NotCrossesPolarity ==
    /\ op = "Negative::not" =>
        /\ IsVal(r, "Pos", x.w, -Value(x) - 1) /\ Value(r) >= 0
        /\ Positive_not(r) = x
    /\ op = "Positive::not" =>
        /\ IsVal(r, "Neg", x.w, -Value(x) - 1) /\ Value(r) < 0
        /\ Negative_not(r) = x

C18_Witness ==
    /\ op = "Negative::not"
    /\ Value(x) = MinOf(x.w)
    /\ r = Positive_MAX(x.w)

\* Bit k of the two's-complement pattern of n at width w.
Bit(w, n, k) == (AsUns(w, n) \div (2 ^ k)) % 2

\* The bitwise binary operators: the primitive operation and the polarity of
\* the result.
BitTable ==
    ("Positive::bitor" :> <<"or", "Pos">>)
    @@ ("Positive::bitand" :> <<"and", "Pos">>)
    @@ ("Positive::bitxor" :> <<"xor", "Pos">>)
    @@ ("Negative::bitor" :> <<"or", "Neg">>)
    @@ ("Negative::bitand" :> <<"and", "Neg">>)
    @@ ("Negative::bitxor" :> <<"xor", "Pos">>)
    @@ ("Negative::bitor<Positive>" :> <<"or", "Neg">>)
    @@ ("Positive::bitor<Negative>" :> <<"or", "Neg">>)
    @@ ("Negative::bitand<Positive>" :> <<"and", "Pos">>)
    @@ ("Positive::bitand<Negative>" :> <<"and", "Pos">>)
    @@ ("Negative::bitxor<Positive>" :> <<"xor", "Neg">>)
    @@ ("Positive::bitxor<Negative>" :> <<"xor", "Neg">>)
    @@ ("Positive::bitand<base>" :> <<"and", "Pos">>)
    @@ ("base::bitand<Positive>" :> <<"and", "Pos">>)
    @@ ("Negative::bitor<base>" :> <<"or", "Neg">>)
    @@ ("base::bitor<Negative>" :> <<"or", "Neg">>)

\* C19: every bitwise binary operator returns the value whose raw integer is
\* the primitive bitwise operation on the operands' raw integers, with the
\* polarity of the table: Positive op Positive is Positive; Negative | Negative
\* and Negative & Negative are Negative, Negative ^ Negative is Positive;
\* Negative | Positive is Negative, Negative & Positive is Positive and
\* Negative ^ Positive is Negative, in either order; Positive & primitive is
\* Positive, Negative | primitive is Negative.
C19_BitwiseTable ==
    /\ op \in DOMAIN BitTable =>
        /\ r.tag = "Val" /\ r.chk = "ok" /\ r.w = x.w
        /\ r.pol = BitTable[op][2] /\ InRange(r)
        /\ \A k \in 0 .. (x.w - 1) :
            Bit(x.w, Value(r), k)
                = BitOf(BitTable[op][1], Bit(x.w, Value(x), k),
                        Bit(x.w, Value(y), k))
    /\ op = "Negative::bitor<Positive>" /\ Value(x) = -1 /\ Value(y) = 5 =>
        r.pol = "Neg" /\ Value(r) = -1
    /\ op = "Negative::bitand<Positive>" /\ Value(x) = -1 /\ Value(y) = 5 =>
        r.pol = "Pos" /\ Value(r) = 5
    /\ op = "Negative::bitxor" /\ Value(x) = -1 /\ Value(y) = -1 =>
        r.pol = "Pos" /\ Value(r) = 0

C19_Witness ==
    /\ op = "Negative::bitand<Positive>"
    /\ x.w = W8 /\ Value(x) = -1 /\ Value(y) = 5
    /\ r.tag = "Val" /\ r.pol = "Pos" /\ Value(r) = 5

\* C20: the From conversions are total and keep the number: from a type to
\* the wider type of the same polarity, from a narrower unsigned primitive to
\* a positive type, and from a sign-bound value to each primitive that is a
\* From target; the result holds the same integer and has the target's
\* polarity.
C20_FromKeepsTheValue ==
    /\ op = "Positive::from<uns>" =>
        IsVal(r, "Pos", W16, Value(x)) /\ x.w < r.w /\ InRange(r)
    /\ op = "Positive::from<Positive>" =>
        IsVal(r, "Pos", W16, Value(x)) /\ x.w < r.w /\ InRange(r)
    /\ op = "Negative::from<Negative>" =>
        IsVal(r, "Neg", W16, Value(x)) /\ x.w < r.w /\ InRange(r)
    /\ op = "primitive::from<Positive>" =>
        /\ r.tag = "Val" /\ r.chk = "ok" /\ r.pol \in {"U", "I"}
        /\ Value(r) = Value(x) /\ Value(r) >= 0
    /\ op = "primitive::from<Negative>" =>
        /\ r.tag = "Val" /\ r.chk = "ok" /\ r.pol = "I"
        /\ Value(r) = Value(x) /\ Value(r) < 0

C20_Witness ==
    /\ op = "Negative::from<Negative>"
    /\ x.w = W8 /\ Value(x) = -1
    /\ r.tag = "Val" /\ r.pol = "Neg" /\ r.w = W16 /\ Value(r) = -1
    /\ r.hi = 255 /\ r.buf = 255

\* v is Ok of the instance of polarity pol and width w holding n.
IsOk(v, pol, w, n) ==
    /\ v.tag = "Ok" /\ v.pol = pol /\ v.w = w /\ v.chk = "ok"
    /\ Value(v) = n

\* C21: a narrowing TryFrom between types of the same polarity is Ok holding
\* the same integer exactly when the source value is in the narrower type's
\* range and an error otherwise (200 does not fit the positive 8-bit type);
\* widening with From and narrowing back with TryFrom returns the original.
C21_NarrowingTryFrom ==
    /\ op = "Positive::try_from<Positive>" =>
        /\ IF Value(x) <= MaxOf(W8) THEN IsOk(r, "Pos", W8, Value(x))
           ELSE r = Err
        /\ Value(x) = 200 => r = Err
    /\ op = "Negative::try_from<Negative>" =>
        IF Value(x) >= MinOf(W8) THEN IsOk(r, "Neg", W8, Value(x))
        ELSE r = Err
    /\ op = "Positive::from<Positive>" =>
        Positive_try_from_Positive(W8, r) = Ok(x)
    /\ op = "Negative::from<Negative>" =>
        Negative_try_from_Negative(W8, r) = Ok(x)

C21_Witness ==
    /\ op = "Positive::try_from<Positive>"
    /\ x.w = W16 /\ Value(x) = 200
    /\ r = Err

\* C22: TryFrom from a primitive v: for a Positive type of width W it is Ok
\* holding v exactly when 0 <= v <= MAX of the signed W-bit primitive and Err
\* otherwise; for a Negative type of width W it is Ok holding v exactly when
\* MIN <= v < 0 and Err otherwise; it never panics.
C22_TryFromPrimitive ==
    /\ op \in {"Positive::try_from<uns>", "Positive::try_from<base>"} =>
        /\ r \in {Positive_try_from(t, x) : t \in Widths}
        /\ \A t \in Widths :
            op = "Positive::try_from<base>" \/ x.w >= t =>
                IF 0 <= Value(x) /\ Value(x) <= MaxOf(t)
                THEN IsOk(Positive_try_from(t, x), "Pos", t, Value(x))
                ELSE Positive_try_from(t, x) = Err
    /\ op = "Negative::try_from<base>" =>
        /\ r \in {Negative_try_from(t, x) : t \in Widths}
        /\ \A t \in Widths :
            IF MinOf(t) <= Value(x) /\ Value(x) < 0
            THEN IsOk(Negative_try_from(t, x), "Neg", t, Value(x))
            ELSE Negative_try_from(t, x) = Err

C22_Witness ==
    /\ op = "Negative::try_from<base>"
    /\ x.w = W16 /\ Value(x) = MinOf(W8)
    /\ r.tag = "Ok" /\ r.pol = "Neg" /\ r.w = W8 /\ Value(r) = MinOf(W8)

\* C23: from_str parses with the decimal parser of the unsigned primitive
\* for a Positive type and of the signed primitive for a Negative type; when
\* that parse fails, its error kind is returned unchanged; when it gives a
\* number outside the polarity range (Positive: above the signed MAX;
\* Negative: zero or more), the result is Err(PosOverflow); when it gives a
\* number in the range, the result is Ok holding that number.
C23_FromStr ==
    /\ op = "Positive::from_str" =>
        /\ r \in {Positive_from_str(w, x) : w \in Widths}
        /\ \A w \in Widths :
            LET p == parse("U", w, x.buf)
                v == Positive_from_str(w, x)
            IN  IF p.tag = "Err" THEN v = p /\ v.pol # "none"
                ELSE IF Value(p) > MaxOf(w)
                     THEN v = IntErrorKind("PosOverflow")
                     ELSE IsOk(v, "Pos", w, Value(p))
        /\ x.buf = <<"1", "2", "8">> =>
            Positive_from_str(W8, x) = IntErrorKind("PosOverflow")
        /\ x.buf = <<"-", "1">> =>
            Positive_from_str(W8, x) = IntErrorKind("InvalidDigit")
        /\ x.buf = <<"2", "5", "6">> =>
            Positive_from_str(W8, x) = IntErrorKind("PosOverflow")
    /\ op = "Negative::from_str" =>
        /\ r \in {Negative_from_str(w, x) : w \in Widths}
        /\ \A w \in Widths :
            LET p == parse("I", w, x.buf)
                v == Negative_from_str(w, x)
            IN  IF p.tag = "Err" THEN v = p /\ v.pol # "none"
                ELSE IF Value(p) >= 0
                     THEN v = IntErrorKind("PosOverflow")
                     ELSE IsOk(v, "Neg", w, Value(p))
        /\ x.buf = <<"-", "1", "2", "9">> =>
            Negative_from_str(W8, x) = IntErrorKind("NegOverflow")
        /\ x.buf = <<"-", "1", "2", "8">> =>
            IsOk(Negative_from_str(W8, x), "Neg", W8, -128)
        /\ x.buf = <<>> => Negative_from_str(W8, x) = IntErrorKind("Empty")

C23_Witness ==
    /\ op = "Negative::from_str"
    /\ x.buf = <<"0">>
    /\ r = IntErrorKind("PosOverflow")

\* v is the u32 holding the logarithm of n to base b, rounded down.
IsLog(v, b, n) ==
    /\ v.pol = "U" /\ v.w = 32 /\ v.chk = "ok"
    /\ b ^ Value(v) <= n /\ n < b ^ (Value(v) + 1)

\* C24: on the Positive value zero, ilog2 and ilog10 panic, and checked_ilog2
\* and checked_ilog10 return None without panicking; on every Positive value
\* > 0 all four return the base-2, resp. base-10, logarithm rounded down, the
\* checked ones in Some.
C24_Logarithms ==
    /\ op = "Positive::ilog2" =>
        IF Value(x) = 0 THEN r = Panic
        ELSE r.tag = "Val" /\ IsLog(r, 2, Value(x))
    /\ op = "Positive::ilog10" =>
        IF Value(x) = 0 THEN r = Panic
        ELSE r.tag = "Val" /\ IsLog(r, 10, Value(x))
    /\ op = "Positive::checked_ilog2" =>
        IF Value(x) = 0 THEN r = None
        ELSE r.tag = "Some" /\ IsLog(r, 2, Value(x))
    /\ op = "Positive::checked_ilog10" =>
        IF Value(x) = 0 THEN r = None
        ELSE r.tag = "Some" /\ IsLog(r, 10, Value(x))

C24_Witness ==
    /\ op = "Positive::ilog2"
    /\ Value(x) = 0
    /\ r = Panic

\* C25: for every Positive p of width W, checked_next_power_of_two is Some of
\* the smallest power of two >= p when that power is <= MAX, that is when
\* p <= 2^(W-2), with 1 for p = 0, and None when the next power of two would
\* be 2^(W-1); it never panics and never returns a negative or wrapped value.
C25_NextPowerOfTwo ==
    op = "Positive::checked_next_power_of_two" =>
        /\ r.chk = "ok" /\ r.tag # "Panic"
        /\ IF Value(x) <= 2 ^ (x.w - 2)
           THEN /\ r.tag = "Some" /\ r.pol = "Pos" /\ r.w = x.w
                /\ \E k \in 0 .. (x.w - 2) : Value(r) = 2 ^ k
                /\ Value(r) >= Value(x)
                /\ Value(r) = 1 \/ Value(r) \div 2 < Value(x)
                /\ InRange(r)
           ELSE r = None
        /\ Value(x) = 0 => Value(r) = 1

C25_Witness ==
    /\ op = "Positive::checked_next_power_of_two"
    /\ x.w = W8 /\ Value(x) = 65
    /\ r = None

\* C26: for every Positive a and every unsigned b of the same width, the
\* values above the signed MAX included, checked_div_unsigned and
\* checked_rem_unsigned are None when b = 0 and otherwise Some of the Positive
\* holding the quotient a / b rounded down, resp. the remainder, computed on
\* the unsigned view; the result fits the Positive range, and when b > a the
\* quotient is 0 and the remainder is a.
C26_UnsignedDivRem ==
    LET m == Value(x)
        n == Value(y)
    IN  /\ op = "Positive::checked_div_unsigned" =>
            /\ IF n = 0 THEN r = None
               ELSE /\ \E q \in 0 .. m :
                        /\ IsSome(r, "Pos", x.w, q)
                        /\ q * n <= m /\ m < (q + 1) * n
                    /\ InRange(r)
            /\ n > m => Value(r) = 0 /\ r.tag = "Some"
        /\ op = "Positive::checked_rem_unsigned" =>
            /\ IF n = 0 THEN r = None
               ELSE /\ \E q \in 0 .. m :
                        /\ IsSome(r, "Pos", x.w, m - q * n)
                        /\ 0 <= m - q * n /\ m - q * n < n
                    /\ InRange(r)
            /\ n > m => Value(r) = m /\ r.tag = "Some"

C26_Witness ==
    /\ op = "Positive::checked_rem_unsigned"
    /\ x.w = W8 /\ Value(x) = 100 /\ Value(y) = 200
    /\ r.tag = "Some" /\ r.pol = "Pos" /\ Value(r) = 100

\* C27 as the specification states it: the Negative types implement default()
\* and it returns their MIN.
C27_NegativeDefaultIsMIN ==
    /\ "Neg" \in Defaulted
    /\ op = "Negative::default" => r = Negative_MIN(r.w)

\* C27, amended: only the Positive types implement default(), and it returns
\* their MIN, zero; the Negative types implement no default().
C27_OnlyPositiveDefault ==
    /\ Defaulted = {"Pos"}
    /\ op # "Negative::default"
    /\ op = "Positive::default" =>
        /\ IsVal(r, "Pos", r.w, 0)
        /\ r = Positive_MIN(r.w)

C27_Witness ==
    /\ op = "Positive::default"
    /\ r = Positive_MIN(W8) /\ Value(r) = 0

\* C28: for every Negative a and Positive b, a.saturating_mul_positive(b) is
\* Negative -1 when b = 0, Negative MIN when a * b < MIN, and otherwise the
\* Negative holding a * b: min(saturating_mul(a, b), -1); it never fails.
C28_SaturatingMulPositive ==
    op = "Negative::saturating_mul_positive" =>
        LET m == Value(x)
            n == Value(y)
        IN  /\ IsVal(r, "Neg", x.w,
                     IF n = 0 THEN -1
                     ELSE IF m * n < MinOf(x.w) THEN MinOf(x.w)
                     ELSE m * n)
            /\ Value(r) = Min(Max(m * n, MinOf(x.w)), -1)
            /\ InRange(r)

C28_Witness ==
    /\ op = "Negative::saturating_mul_positive"
    /\ Value(x) = MinOf(x.w) /\ Value(y) = 0
    /\ r = Negative_MAX(x.w)

\* C29: a failed TryFrom reports one and the same error whether the source
\* was outside the target width's range or had the wrong sign for the target
\* polarity: the error for 5 into the negative 8-bit type, or -5 into the
\* positive one, is the error for -1000, resp. 1000.
C29_OneError ==
    /\ op = "Negative::try_from<base>" =>
        /\ r.tag # "Ok" => r = Err
        /\ Value(x) >= 0 =>
            /\ r = Err
            /\ \A t \in Widths :
                Negative_try_from(t, x)
                    = Negative_try_from(W8, Prim("I", W16, -1000))
        /\ Value(x) = 5 =>
            Negative_try_from(W8, x) = Negative_try_from(W8, Prim("I", W16, -1000))
    /\ op \in {"Positive::try_from<base>", "Positive::try_from<uns>"} =>
        /\ r.tag # "Ok" => r = Err
        /\ Value(x) < 0 =>
            /\ r = Err
            /\ \A t \in Widths :
                Positive_try_from(t, x)
                    = Positive_try_from(W8, Prim("I", W16, 1000))
        /\ Value(x) = -5 =>
            Positive_try_from(W8, x) = Positive_try_from(W8, Prim("I", W16, 1000))

C29_Witness ==
    /\ op = "Negative::try_from<base>"
    /\ Value(x) = 5
    /\ r = Err

\* The compound assignments: the primitive operator of each.
AssignTable ==
    ("Positive::div_assign" :> "div")
    @@ ("Positive::rem_assign" :> "rem")
    @@ ("Positive::div_assign<uns>" :> "div")
    @@ ("Positive::rem_assign<uns>" :> "rem")
    @@ ("Positive::bitand_assign<base>" :> "and")
    @@ ("Positive::bitor_assign" :> "or")
    @@ ("Positive::bitand_assign" :> "and")
    @@ ("Positive::bitxor_assign" :> "xor")
    @@ ("Positive::bitand_assign<Negative>" :> "and")
    @@ ("Negative::bitor_assign<base>" :> "or")
    @@ ("Negative::bitor_assign<Positive>" :> "or")
    @@ ("Negative::bitxor_assign<Positive>" :> "xor")
    @@ ("Negative::bitor_assign" :> "or")
    @@ ("Negative::bitand_assign" :> "and")

\* The value of `a op b` for the operator of the assignment name.
Operator(name, a, b) ==
    CASE name = "Positive::div_assign" -> Positive_div(a, b)
      [] name = "Positive::rem_assign" -> Positive_rem(a, b)
      [] name = "Positive::div_assign<uns>" -> Positive_div_unsigned(a, b)
      [] name = "Positive::rem_assign<uns>" -> Positive_rem_unsigned(a, b)
      [] name = "Positive::bitand_assign<base>" -> Positive_bitand_base(a, b)
      [] name = "Positive::bitor_assign" -> Positive_bitor(a, b)
      [] name = "Positive::bitand_assign" -> Positive_bitand(a, b)
      [] name = "Positive::bitxor_assign" -> Positive_bitxor(a, b)
      [] name = "Positive::bitand_assign<Negative>" ->
            Positive_bitand_Negative(a, b)
      [] name = "Negative::bitor_assign<base>" -> Negative_bitor_base(a, b)
      [] name = "Negative::bitor_assign<Positive>" ->
            Negative_bitor_Positive(a, b)
      [] name = "Negative::bitxor_assign<Positive>" ->
            Negative_bitxor_Positive(a, b)
      [] name = "Negative::bitor_assign" -> Negative_bitor(a, b)
      [] name = "Negative::bitand_assign" -> Negative_bitand(a, b)

\* One compound assignment `a op= b`, from the state before it to the state
\* after it.
AssignStep ==
    op' \in DOMAIN AssignTable =>
        LET f == AssignTable[op']
            m == Value(x)
            n == Value(y)
        IN  /\ y' = y
            /\ ValidBytes(x') /\ InRange(x')
            /\ x'.tag = "Val" /\ x'.pol = x.pol /\ x'.w = x.w
            /\ IF f \in {"div", "rem"} /\ n = 0
               THEN r' = Panic /\ x' = x
               ELSE /\ r' = Unit
                    /\ x' = Operator(op', x, y)
                    /\ f = "div" => Value(x') = m \div n
                    /\ f = "rem" => Value(x') = m % n
                    /\ f \in {"and", "or", "xor"} =>
                        \A k \in 0 .. (x.w - 1) :
                            Bit(x.w, Value(x'), k)
                                = BitOf(f, Bit(x.w, m, k), Bit(x.w, n, k))

\* C30: every compound assignment is reconstruction: after `a op= b` the
\* variable a holds the value of `a op b`, whose raw integer is the primitive
\* operator applied to the raw operands, a keeps its polarity and b is
\* unchanged; /= and %= panic when the divisor is zero and leave no invalid
\* value behind.
C30_AssignIsReconstruction == [][AssignStep]_vars

C30_Witness ==
    /\ op = "Negative::bitxor_assign<Positive>"
    /\ x.pol = "Neg" /\ Value(x) = -6 /\ Value(y) = 5
    /\ r = Unit

====
